---------------------------- MODULE Spec2Model ----------------------------
(***************************************************************************)
(* Model of the BACC calculator backend: the allowance calculation of      *)
(* POST /api/calculate-bacc in IEEE-754 double arithmetic, the two         *)
(* flat-file record stores, the research upsert route and the CSV exports. *)
(***************************************************************************)
EXTENDS Integers, Sequences, FiniteSets, TLC

(***************************************************************************)
(* Every intermediate result of the arithmetic is computed once and then   *)
(* named: Bind(F, v) is LET x == v IN F(x).                                *)
(***************************************************************************)
Bind(F(_), v) == CHOOSE r \in {F(x) : x \in {v}} : TRUE

Bind2(F(_, _), v, w) == CHOOSE r \in {F(x, y) : x \in {v}, y \in {w}} : TRUE

(***************************************************************************)
(* Unsigned big integers: little-endian sequences of limbs in base 2^15,   *)
(* without leading zero limbs.  They carry the 53-bit significands (and    *)
(* the 106-bit exact products) of the JavaScript numbers the handlers      *)
(* compute with; TLC's own integers are 32 bits wide.                      *)
(***************************************************************************)
RECURSIVE Pow2(_)
Pow2(k) == IF k = 0 THEN 1 ELSE 2 * Pow2(k - 1)

RECURSIVE IntBitLen(_)
IntBitLen(n) == IF n = 0 THEN 0 ELSE 1 + IntBitLen(n \div 2)

LimbBase == 2^15

LimbBits == IntBitLen(LimbBase) - 1

\* the index of the top non-zero limb, 0 when there is none
TopLimb(a) ==
    IF \A i \in 1..Len(a) : a[i] = 0 THEN 0
    ELSE CHOOSE i \in 1..Len(a) : a[i] # 0 /\ \A j \in (i + 1)..Len(a) : a[j] = 0

BigNorm(a) == Bind(LAMBDA x : SubSeq(x, 1, TopLimb(x)), a)

RECURSIVE BigFromInt(_)
BigFromInt(n) ==
    IF n = 0 THEN <<>>
    ELSE <<n % LimbBase>> \o BigFromInt(n \div LimbBase)

RECURSIVE BigToIntFrom(_, _)
BigToIntFrom(a, i) ==
    IF i > Len(a) THEN 0 ELSE a[i] + LimbBase * BigToIntFrom(a, i + 1)

BigToInt(a) == Bind(LAMBDA x : BigToIntFrom(x, 1), a)

Limb(a, i) == IF i >= 1 /\ i <= Len(a) THEN a[i] ELSE 0

Max(x, y) == IF x >= y THEN x ELSE y

Min(x, y) == IF x <= y THEN x ELSE y

RECURSIVE BigAddFrom(_, _, _, _)
BigAddFrom(a, b, i, carry) ==
    IF i > Max(Len(a), Len(b))
    THEN (IF carry = 0 THEN <<>> ELSE <<carry>>)
    ELSE LET s == Limb(a, i) + Limb(b, i) + carry
         IN  <<s % LimbBase>> \o BigAddFrom(a, b, i + 1, s \div LimbBase)

BigAdd(a, b) == Bind2(LAMBDA x, y : BigNorm(BigAddFrom(x, y, 1, 0)), a, b)

\* a - b for a >= b
RECURSIVE BigSubFrom(_, _, _, _)
BigSubFrom(a, b, i, borrow) ==
    IF i > Len(a) THEN <<>>
    ELSE LET d == Limb(a, i) - Limb(b, i) - borrow
         IN  IF d < 0
             THEN <<d + LimbBase>> \o BigSubFrom(a, b, i + 1, 1)
             ELSE <<d>> \o BigSubFrom(a, b, i + 1, 0)

BigSub(a, b) == Bind2(LAMBDA x, y : BigNorm(BigSubFrom(x, y, 1, 0)), a, b)

\* a * s for a limb-sized s
RECURSIVE BigMulSmallFrom(_, _, _, _)
BigMulSmallFrom(a, s, i, carry) ==
    IF i > Len(a)
    THEN (IF carry = 0 THEN <<>> ELSE <<carry>>)
    ELSE LET p == a[i] * s + carry
         IN  <<p % LimbBase>> \o BigMulSmallFrom(a, s, i + 1, p \div LimbBase)

BigMulSmall(a, s) == Bind2(LAMBDA x, y : BigNorm(BigMulSmallFrom(x, y, 1, 0)), a, s)

BigShlLimbs(a, k) ==
    Bind(LAMBDA x : IF x = <<>> THEN <<>> ELSE [i \in 1..k |-> 0] \o x, a)

RECURSIVE BigMulFrom(_, _, _)
BigMulFrom(a, b, i) ==
    IF i > Len(b) THEN <<>>
    ELSE BigAdd(BigShlLimbs(BigMulSmall(a, b[i]), i - 1), BigMulFrom(a, b, i + 1))

BigMul(a, b) == Bind2(LAMBDA x, y : BigMulFrom(x, y, 1), a, b)

BigShl(a, k) ==
    Bind(LAMBDA n : BigShlLimbs(BigMulSmall(a, Pow2(n % LimbBits)), n \div LimbBits), k)

\* floor(a / 2^k)
BigShr(a, k) ==
    Bind2(LAMBDA x, n :
              LET q == n \div LimbBits
                  r == n % LimbBits
              IN  IF Len(x) - q <= 0 THEN <<>>
                  ELSE BigNorm([i \in 1..(Len(x) - q) |->
                           (x[i + q] \div Pow2(r))
                           + (Limb(x, i + q + 1) % Pow2(r)) * Pow2(LimbBits - r)]),
          a, k)

\* bit i of a, bit 0 being the least significant
BigBit(a, i) ==
    Bind(LAMBDA n : (Limb(a, (n \div LimbBits) + 1) \div Pow2(n % LimbBits)) % 2, i)

\* whether any of the k low bits of a is set
BigLowBits(a, k) ==
    Bind2(LAMBDA x, n :
              \E i \in 1..Len(x) :
                  /\ x[i] # 0
                  /\ \/ i <= n \div LimbBits
                     \/ i = (n \div LimbBits) + 1 /\ x[i] % Pow2(n % LimbBits) # 0,
          a, k)

BigBitLen(a) ==
    Bind(LAMBDA x : IF x = <<>> THEN 0
                    ELSE LimbBits * (Len(x) - 1) + IntBitLen(x[Len(x)]), a)

\* (the limbs i.. of a, as a number) mod d, for a limb-sized d
RECURSIVE BigRemFrom(_, _, _)
BigRemFrom(a, d, i) ==
    IF i > Len(a) THEN 0
    ELSE (BigRemFrom(a, d, i + 1) * LimbBase + a[i]) % d

\* <<floor(a / d), a mod d>> for a limb-sized d: long division, the limb i
\* of the quotient coming from the remainder of the limbs above it
BigDivSmall(a, d) ==
    Bind(LAMBDA x :
             <<BigNorm([i \in 1..Len(x) |->
                          (BigRemFrom(x, d, i + 1) * LimbBase + x[i]) \div d]),
               BigRemFrom(x, d, 1)>>,
         a)

(***************************************************************************)
(* JavaScript numbers.  A number is NaN or a non-negative IEEE-754 double  *)
(* m * 2^e whose significand m has exactly 53 bits (zero: m empty, e 0).   *)
(* The handlers never produce a negative number, an infinity or a          *)
(* subnormal from the inputs modelled.  Every operation computes the exact *)
(* result and rounds it to nearest, ties to even, as the hardware does.    *)
(***************************************************************************)
NaN == [nan |-> TRUE, m |-> <<>>, e |-> 0]

Zero == [nan |-> FALSE, m |-> <<>>, e |-> 0]

SigBits == 53

\* q * 2^e, or (q + 1) * 2^e when rounding up, for a q of 53 bits
RoundUp(q, up, e) ==
    Bind(LAMBDA r : IF BigBitLen(r) > SigBits
                    THEN [nan |-> FALSE, m |-> BigShr(r, 1), e |-> e + 1]
                    ELSE [nan |-> FALSE, m |-> r, e |-> e],
         IF up THEN BigAdd(q, <<1>>) ELSE q)

\* the double nearest to (n + f) * 2^e for an n of len bits
RoundBits(n, len, e, sticky) ==
    IF len = 0 THEN Zero
    ELSE IF len <= SigBits
    THEN [nan |-> FALSE, m |-> BigShl(n, SigBits - len), e |-> e - (SigBits - len)]
    ELSE Bind(LAMBDA q :
                  RoundUp(q,
                          /\ BigBit(n, len - SigBits - 1) = 1
                          /\ \/ sticky
                             \/ BigLowBits(n, len - SigBits - 1)
                             \/ BigBit(q, 0) = 1,
                          e + (len - SigBits)),
              BigShr(n, len - SigBits))

\* the double nearest to (n + f) * 2^e, where 0 <= f < 1 and f > 0 iff sticky
Round53(n, e, sticky) ==
    Bind(LAMBDA x : Bind(LAMBDA len : RoundBits(x, len, e, sticky), BigBitLen(x)), n)

FromInt(n) == Round53(BigFromInt(n), 0, FALSE)

NumMul(a, b) ==
    Bind2(LAMBDA x, y : IF x.nan \/ y.nan THEN NaN
                        ELSE Round53(BigMul(x.m, y.m), x.e + y.e, FALSE),
          a, b)

NumAdd(a, b) ==
    Bind2(LAMBDA x, y :
              IF x.nan \/ y.nan THEN NaN
              ELSE IF x.m = <<>> THEN y
              ELSE IF y.m = <<>> THEN x
              ELSE Round53(BigAdd(BigShl(x.m, x.e - Min(x.e, y.e)),
                                  BigShl(y.m, y.e - Min(x.e, y.e))),
                           Min(x.e, y.e), FALSE),
          a, b)

\* a - b for a >= b >= 0
NumSub(a, b) ==
    Bind2(LAMBDA x, y :
              IF x.nan \/ y.nan THEN NaN
              ELSE IF y.m = <<>> THEN x
              ELSE Round53(BigSub(BigShl(x.m, x.e - Min(x.e, y.e)),
                                  BigShl(y.m, y.e - Min(x.e, y.e))),
                           Min(x.e, y.e), FALSE),
          a, b)

\* a / d for a small positive integer d (the handlers divide by 100 only)
NumDivInt(a, d) ==
    Bind(LAMBDA x :
             IF x.nan THEN NaN
             ELSE Bind(LAMBDA qr : Round53(qr[1], x.e - 2 * LimbBits, qr[2] # 0),
                       BigDivSmall(BigShl(x.m, 2 * LimbBits), d)),
         a)

\* Math.round: the nearest integer, a tie going up
MathRound(a) ==
    Bind(LAMBDA x :
             IF x.nan THEN NaN
             ELSE IF x.e >= 0 THEN x
             ELSE IF -x.e > SigBits THEN Zero
             ELSE Round53(IF BigBit(x.m, -x.e - 1) = 1
                          THEN BigAdd(BigShr(x.m, -x.e), <<1>>)
                          ELSE BigShr(x.m, -x.e), 0, FALSE),
         a)

\* Math.round(x * 100) / 100
Round2(x) == NumDivInt(MathRound(NumMul(x, FromInt(100))), 100)

(***************************************************************************)
(* JavaScript values, as far as the handlers distinguish them.  An object  *)
(* is a function from its own property names to values.                    *)
(***************************************************************************)
Undef == [t |-> "undefined"]

Null == [t |-> "null"]

Fn == [t |-> "function"]

Str(s) == [t |-> "string", s |-> s]

Bool(b) == [t |-> "boolean", b |-> b]

Num(d) == [t |-> "number", v |-> d]

NumOf(n) == Num(FromInt(n))

Arr(a) == [t |-> "array", a |-> a]

Obj(o) == [t |-> "object", o |-> o]

\* a Date, and the strings formatted from it
Instant(n) == [t |-> "instant", at |-> n]

\* v[k] of a request body or of a parsed JSON object
Prop(v, k) == IF v.t = "object" /\ k \in DOMAIN v.o THEN v.o[k] ELSE Undef

\* !v is false
Truthy(v) ==
    CASE v.t \in {"undefined", "null"} -> FALSE
      [] v.t = "string" -> v.s # ""
      [] v.t = "number" -> ~v.v.nan /\ v.v.m # <<>>
      [] OTHER -> TRUE

IsArray(v) == v.t = "array"

\* v.length > 0, where a value without a length compares false
LengthPositive(v) ==
    CASE v.t = "array" -> Len(v.a) > 0
      [] v.t = "string" -> v.s # ""
      [] OTHER -> FALSE

\* v.forEach is callable
HasForEach(v) == v.t = "array"

\* reading a property of v throws a TypeError
ThrowsOnProp(v) == v.t \in {"undefined", "null"}

\* the operand of an arithmetic operator, as a number
ToNumber(v) == IF v.t = "number" THEN v.v ELSE NaN

\* the members every object literal inherits from Object.prototype
ObjectPrototypeKeys ==
    {"constructor", "toString", "toLocaleString", "valueOf", "hasOwnProperty",
     "isPrototypeOf", "propertyIsEnumerable", "__proto__"}

\* the property name a value used as a key is converted to
PropertyKey(v) ==
    CASE v.t = "string" -> v.s
      [] v.t = "undefined" -> "undefined"
      [] v.t = "null" -> "null"
      [] OTHER -> "[value]"

\* table[key] for an object literal of numbers: an own property, else an
\* inherited member, else undefined
Lookup(table, key) ==
    LET k == PropertyKey(key)
    IN  IF k \in DOMAIN table THEN Num(table[k])
        ELSE IF k \in ObjectPrototypeKeys THEN Fn
        ELSE Undef

\* the decimal strings the requests carry, with the number each parses to
NumericStrings == ("0" :> 0) @@ ("1" :> 1) @@ ("25" :> 25) @@ ("50" :> 50) @@ ("100" :> 100)

ParseFloat(v) ==
    IF v.t = "string" /\ v.s \in DOMAIN NumericStrings
    THEN FromInt(NumericStrings[v.s])
    ELSE NaN

\* JSON.parse(JSON.stringify(v)): NaN becomes null, an undefined or function
\* property is dropped, an undefined array element becomes null
RECURSIVE JsonValue(_)
JsonValue(v) ==
    Bind(LAMBDA x :
             CASE x.t = "number" -> IF x.v.nan THEN Null ELSE x
               [] x.t = "array" ->
                     Arr([i \in 1..Len(x.a) |->
                            IF x.a[i].t \in {"undefined", "function"} THEN Null
                            ELSE JsonValue(x.a[i])])
               [] x.t = "object" ->
                     Obj([k \in {j \in DOMAIN x.o : x.o[j].t \notin {"undefined", "function"}} |->
                            JsonValue(x.o[k])])
               [] x.t \in {"undefined", "function"} -> Undef
               [] OTHER -> x,
         v)

(***************************************************************************)
(* The allowance tables and the calculation of POST /api/calculate-bacc.   *)
(***************************************************************************)
\* the double a decimal literal with one fractional digit denotes
Tenths(n) == NumDivInt(FromInt(n), 10)

\* rankAllowances, in dollars
RankDollars ==
    [r \in {"E-1", "E-2"} |-> 1200] @@ ("E-3" :> 1150) @@ ("E-4" :> 1100) @@
    ("E-5" :> 1000) @@ ("E-6" :> 950) @@ ("E-7" :> 900) @@ ("E-8" :> 800) @@
    ("E-9" :> 700) @@ ("W-1" :> 950) @@ ("W-2" :> 900) @@ ("W-3" :> 850) @@
    ("W-4" :> 800) @@ ("W-5" :> 650) @@ ("O-1" :> 900) @@ ("O-2" :> 850) @@
    ("O-3" :> 800) @@ ("O-4" :> 700) @@ ("O-5" :> 650) @@ ("O-6" :> 550) @@
    ("O-7" :> 450) @@ ("O-8" :> 400) @@ ("O-9" :> 350) @@ ("O-10" :> 300)

\* geographicMultipliers, in tenths
GeoTenths == ("Low Cost" :> 8) @@ ("Standard Cost" :> 10) @@ ("High Cost" :> 15)

\* ageMultipliers, in tenths
AgeTenths ==
    ("Infant (0-12 months)" :> 14) @@ ("Toddler (13-24 months)" :> 13) @@
    ("Preschool (25-60 months)" :> 10) @@ ("School-age (6-13 years)" :> 4)

rankAllowances == [r \in DOMAIN RankDollars |-> FromInt(RankDollars[r])]

geographicMultipliers == [l \in DOMAIN GeoTenths |-> Tenths(GeoTenths[l])]

ageMultipliers == [a \in DOMAIN AgeTenths |-> Tenths(AgeTenths[a])]

\* costShareDecimal
CostShareDecimal(costShare) ==
    NumDivInt(IF costShare.t = "number" THEN costShare.v ELSE ParseFloat(costShare), 100)

\* one ChildResult: the body of the loop for a child that is not skipped
ChildResult(child, baseAllowance, geoMultiplier, costShareDecimal) ==
    Bind2(LAMBDA ageMultiplier, beforeCostShare :
              Obj([age    |-> Prop(child, "age"),
                   amount |-> Num(Round2(NumMul(beforeCostShare,
                                                NumSub(FromInt(1), costShareDecimal)))),
                   breakdown |-> Obj([baseAllowance    |-> baseAllowance,
                                      geoMultiplier    |-> geoMultiplier,
                                      ageMultiplier    |-> ageMultiplier,
                                      costShareDecimal |-> Num(costShareDecimal),
                                      beforeCostShare  |-> Num(Round2(beforeCostShare))])]),
          Lookup(ageMultipliers, Prop(child, "age")),
          NumMul(NumMul(ToNumber(baseAllowance), ToNumber(geoMultiplier)),
                 ToNumber(Lookup(ageMultipliers, Prop(child, "age")))))

\* the loop over the children from child i on, results and totalMonthly
\* being what the children before i left: <<results, totalMonthly>>
RECURSIVE CalcLoop(_, _, _, _, _, _)
CalcLoop(children, i, baseAllowance, geoMultiplier, costShareDecimal, acc) ==
    IF i > Len(children) THEN acc
    ELSE IF ~Truthy(Lookup(ageMultipliers, Prop(children[i], "age")))
    THEN CalcLoop(children, i + 1, baseAllowance, geoMultiplier, costShareDecimal, acc)
    ELSE Bind(LAMBDA next :
                  CalcLoop(children, i + 1, baseAllowance, geoMultiplier, costShareDecimal, next),
              Bind(LAMBDA res : <<Append(acc[1], res), NumAdd(acc[2], res.o.amount.v)>>,
                   ChildResult(children[i], baseAllowance, geoMultiplier, costShareDecimal)))

\* calculationResult of a body that passed the validation
CalculationResult(body) ==
    Bind2(LAMBDA b, costShareDecimal :
              Bind(LAMBDA loop :
                       Obj([perChild     |-> Arr(loop[1]),
                            totalMonthly |-> Num(Round2(loop[2])),
                            totalAnnual  |-> Num(Round2(NumMul(loop[2], FromInt(12))))]),
                   CalcLoop(Prop(b, "children").a, 1,
                            Lookup(rankAllowances, Prop(b, "rank")),
                            Lookup(geographicMultipliers, Prop(b, "location")),
                            costShareDecimal, <<<<>>, Zero>>)),
          body, CostShareDecimal(Prop(body, "costShare")))

\* the request log's loop over the children throws a TypeError
LoggingThrows(children) ==
    /\ Truthy(children)
    /\ LengthPositive(children)
    /\ \/ ~HasForEach(children)
       \/ \E i \in 1..Len(children.a) : ThrowsOnProp(children.a[i])

\* the validation rejects the body
ValidationFails(body) ==
    \/ ~Truthy(Prop(body, "rank"))
    \/ ~Truthy(Prop(body, "location"))
    \/ ~Truthy(Prop(body, "children"))
    \/ ~IsArray(Prop(body, "children"))

\* the record saveCalculationData builds at instant now
CalculationRecord(body, calculationResult, now) ==
    LET children == Prop(body, "children").a
    IN  Obj([timestamp |-> Instant(now),
             date      |-> Instant(now),
             time      |-> Instant(now),
             rank      |-> Prop(body, "rank"),
             location  |-> Prop(body, "location"),
             costShare |-> Prop(body, "costShare"),
             numberOfChildren |-> NumOf(Len(children)),
             children  |-> Arr([i \in 1..Len(children) |->
                                  Obj([childNumber |-> NumOf(i),
                                       age |-> Prop(children[i], "age")])]),
             totalMonthly    |-> calculationResult.o.totalMonthly,
             totalAnnual     |-> calculationResult.o.totalAnnual,
             perChildResults |-> calculationResult.o.perChild])

(***************************************************************************)
(* The server.  Node runs one task at a time: a synchronous handler runs   *)
(* from its first statement to its response with no other request in       *)
(* between, and an async handler gives the thread up at each await.        *)
(***************************************************************************)
VARIABLES
    nreq,      \* the number of requests received so far; also the clock
    route,     \* route[r]: the route of request r
    body,      \* body[r]: req.body of request r
    pc,        \* pc[r]: where the handler of request r is
    local,     \* local[r]: the handler's local variables
    resp,      \* resp[r]: the response sent to request r
    errors,    \* errors[r]: what the handler of r wrote with console.error
    files,     \* the two JSON files: bacc_calculations, bacc_survey_responses
    research   \* the ResearchData collection

vars == <<nreq, route, body, pc, local, resp, errors, files, research>>

MaxReq == 3

Reqs == 1..MaxReq

NoResponse == [status |-> 0, body |-> Undef]

Response(status, json) == [status |-> status, body |-> JsonValue(json)]

NoLocal == [result |-> Undef, record |-> Undef, existingData |-> <<>>, saved |-> "no"]

FileAbsent == [state |-> "absent", data |-> Arr(<<>>)]

FileCorrupt == [state |-> "corrupt", data |-> Arr(<<>>)]

FileOf(data) == [state |-> "json", data |-> JsonValue(Arr(data))]

\* the file a route appends to
StoreOf(rt) == IF rt = "calculate-bacc" THEN "calc" ELSE "survey"

\* existingData after the read: a missing file and a content JSON.parse
\* rejects both leave the empty array
ReadExisting(file) == IF file.state = "json" THEN file.data.a ELSE <<>>

\* the handlers as they would run if the file calls yielded the thread
HoldsThreadNever(p) == FALSE

\* a handler at p is in the middle of synchronous code: existsSync,
\* readFileSync and writeFileSync return without an await or a callback
HoldsThread(p) == p \in {"saveRead", "saveWrite", "respond"}

\* no handler is in the middle of synchronous code
ThreadFree == \A q \in Reqs : ~HoldsThread(pc[q])

Init ==
    /\ nreq = 0
    /\ route = [r \in Reqs |-> "none"]
    /\ body = [r \in Reqs |-> Undef]
    /\ pc = [r \in Reqs |-> "new"]
    /\ local = [r \in Reqs |-> NoLocal]
    /\ resp = [r \in Reqs |-> NoResponse]
    /\ errors = [r \in Reqs |-> {}]
    /\ files \in [{"calc", "survey"} -> {FileAbsent, FileCorrupt}]
    /\ research = <<>>

\* request r arrives with body b on route rt and its handler gets the thread
Receive(r, rt, b) ==
    /\ ThreadFree
    /\ r = nreq + 1
    /\ r \in Reqs
    /\ nreq' = r
    /\ route' = [route EXCEPT ![r] = rt]
    /\ body' = [body EXCEPT ![r] = b]

Finish(r, response) ==
    /\ resp' = [resp EXCEPT ![r] = response]
    /\ pc' = [pc EXCEPT ![r] = "done"]

\* POST /api/calculate-bacc up to the read of saveCalculationData
PostCalculateBacc(r, b) ==
    /\ Receive(r, "calculate-bacc", b)
    /\ IF LoggingThrows(Prop(b, "children"))
       THEN /\ Finish(r, Response(500, Str("TypeError")))
            /\ UNCHANGED local
       ELSE IF ValidationFails(b)
       THEN /\ Finish(r, Response(400, Obj([error |-> Str("Missing required fields.")])))
            /\ UNCHANGED local
       ELSE /\ local' = [local EXCEPT ![r] =
                   Bind(LAMBDA calculationResult :
                            [NoLocal EXCEPT !.result = calculationResult,
                                            !.record = CalculationRecord(b, calculationResult, r)],
                        CalculationResult(b))]
            /\ pc' = [pc EXCEPT ![r] = "saveRead"]
            /\ UNCHANGED resp
    /\ UNCHANGED <<errors, files, research>>

\* the read of saveCalculationData and of saveSurveyData
SaveRead(r) ==
    /\ pc[r] = "saveRead"
    /\ local' = [local EXCEPT ![r].existingData = ReadExisting(files[StoreOf(route[r])])]
    /\ pc' = [pc EXCEPT ![r] = "saveWrite"]
    /\ UNCHANGED <<nreq, route, body, resp, errors, files, research>>

\* the push and the write of saveCalculationData and of saveSurveyData;
\* writeFileSync succeeds or throws, and a throw is caught and logged
SaveWrite(r) ==
    /\ pc[r] = "saveWrite"
    /\ \E ok \in BOOLEAN :
        LET existingData == Append(local[r].existingData, local[r].record)
        IN  /\ local' = [local EXCEPT ![r].existingData = existingData,
                                      ![r].saved = IF ok THEN "written" ELSE "failed"]
            /\ IF ok
               THEN /\ files' = [files EXCEPT ![StoreOf(route[r])] = FileOf(existingData)]
                    /\ UNCHANGED errors
               ELSE /\ errors' = [errors EXCEPT ![r] = @ \cup {"Error saving data"}]
                    /\ UNCHANGED files
    /\ pc' = [pc EXCEPT ![r] = "respond"]
    /\ UNCHANGED <<nreq, route, body, resp, research>>

\* the response if the error of a failed write reached the handler
CalculateResponseFailing(calculationResult, saved) ==
    IF saved = "failed" THEN Response(500, Obj([error |-> Str("Error saving data")]))
    ELSE Response(200, calculationResult)

\* the response after saveCalculationData returned, whatever the save did
CalculateResponse(calculationResult, saved) == Response(200, calculationResult)

\* res.json(calculationResult)
CalculateRespond(r) ==
    /\ pc[r] = "respond"
    /\ route[r] = "calculate-bacc"
    /\ Finish(r, CalculateResponse(local[r].result, local[r].saved))
    /\ UNCHANGED <<nreq, route, body, local, errors, files, research>>

\* new Date(v) is a valid date: the bodies carry an ISO string (an instant)
\* or something no date parses from
ValidDate(v) == v.t = "instant"

\* generateSurveyId: 'survey_' + Date.now() + '_' + a random suffix
SurveyId(now, rnd) == [t |-> "surveyId", at |-> now, rnd |-> rnd]

\* the suffixes Math.random().toString(36).substr(2, 9) is drawn from
RandomSuffixes == {"k3x", "q9z"}

\* the record saveSurveyData builds
SurveyRecord(surveyData, now, rnd) ==
    Obj([id          |-> SurveyId(now, rnd),
         submittedAt |-> Prop(surveyData, "timestamp"),
         date        |-> Prop(surveyData, "timestamp"),
         time        |-> Prop(surveyData, "timestamp"),
         responses   |-> Prop(surveyData, "responses")])

\* POST /api/submit-survey up to the read of saveSurveyData: Object.keys of
\* a missing responses and toISOString of an invalid date throw into the
\* handler's catch
PostSubmitSurvey(r, b, rnd) ==
    /\ Receive(r, "submit-survey", b)
    /\ IF ThrowsOnProp(Prop(b, "responses")) \/ ~ValidDate(Prop(b, "timestamp"))
       THEN /\ Finish(r, Response(500, Obj([error |-> Str("Error saving survey data")])))
            /\ errors' = [errors EXCEPT ![r] = @ \cup {"Error saving survey"}]
            /\ UNCHANGED local
       ELSE /\ local' = [local EXCEPT ![r] =
                   [NoLocal EXCEPT !.record = SurveyRecord(b, r, rnd)]]
            /\ pc' = [pc EXCEPT ![r] = "saveRead"]
            /\ UNCHANGED <<resp, errors>>
    /\ UNCHANGED <<files, research>>

\* the response after saveSurveyData returned, whatever the save did
SurveyResponse(saved) ==
    Response(200, Obj([success |-> Bool(TRUE),
                       message |-> Str("Survey submitted successfully")]))

\* res.json({ success: true, ... })
SurveyRespond(r) ==
    /\ pc[r] = "respond"
    /\ route[r] = "submit-survey"
    /\ Finish(r, SurveyResponse(local[r].saved))
    /\ UNCHANGED <<nreq, route, body, local, errors, files, research>>

(***************************************************************************)
(* The read endpoints of the flat-file stores.  A CSV text is its header   *)
(* line and the sequence of its data rows, a row the values interpolated   *)
(* into it.                                                                *)
(***************************************************************************)
Csv(header, rows) == [t |-> "csv", header |-> header, rows |-> rows]

\* the row of one calculation record
CalculationRow(record) ==
    [date |-> Prop(record, "date"), time |-> Prop(record, "time"),
     rank |-> Prop(record, "rank"), location |-> Prop(record, "location"),
     costShare |-> Prop(record, "costShare"),
     numberOfChildren |-> Prop(record, "numberOfChildren"),
     totalMonthly |-> Prop(record, "totalMonthly"),
     totalAnnual |-> Prop(record, "totalAnnual"),
     childDetails |-> [i \in 1..Len(Prop(record, "children").a) |->
                         <<Prop(Prop(record, "children").a[i], "childNumber"),
                           Prop(Prop(record, "children").a[i], "age")>>]]

\* the row of one survey record
SurveyRow(record) ==
    [id |-> Prop(record, "id"), date |-> Prop(record, "date"),
     time |-> Prop(record, "time"), responses |-> Prop(record, "responses")]

\* GET /api/export-csv
ExportCsvResponse(file) ==
    IF file.state = "absent"
    THEN Response(404, Obj([error |-> Str("No data available")]))
    ELSE IF file.state = "corrupt"
    THEN Response(500, Obj([error |-> Str("Error exporting data")]))
    ELSE [status |-> 200,
          body |-> Csv("Date,Time,Rank,Location,Cost Share %,Number of Children,Total Monthly,Total Annual,Child Details",
                       [i \in 1..Len(file.data.a) |-> CalculationRow(file.data.a[i])])]

\* GET /api/export-survey-csv
ExportSurveyCsvResponse(file) ==
    IF file.state = "absent"
    THEN Response(404, Obj([error |-> Str("No survey data available")]))
    ELSE IF file.state = "corrupt"
    THEN Response(500, Obj([error |-> Str("Error exporting survey data")]))
    ELSE [status |-> 200,
          body |-> Csv("ID,Date,Time,Current Programs,Program Preference,Quality Care Impact,Mission Readiness Impact,Marital Status,Spouse Impact,Career Impact,Current Hurdles,Follow-up Comments",
                       [i \in 1..Len(file.data.a) |-> SurveyRow(file.data.a[i])])]

\* GET /api/data and GET /api/survey-data
DataResponse(file, what) ==
    IF file.state = "absent"
    THEN Response(200, Obj([message |-> Str("No " \o what \o " available"),
                            count |-> NumOf(0), data |-> Arr(<<>>)]))
    ELSE IF file.state = "corrupt"
    THEN Response(500, Obj([error |-> Str("Error reading " \o what)]))
    ELSE Response(200, Obj([message |-> Str(what \o " retrieved successfully"),
                            count |-> NumOf(Len(file.data.a)), data |-> file.data]))

Get(r, rt, response) ==
    /\ Receive(r, rt, Undef)
    /\ Finish(r, response)
    /\ UNCHANGED <<local, errors, files, research>>

GetExportCsv(r) == Get(r, "export-csv", ExportCsvResponse(files["calc"]))

GetData(r) == Get(r, "data", DataResponse(files["calc"], "data"))

GetExportSurveyCsv(r) ==
    Get(r, "export-survey-csv", ExportSurveyCsvResponse(files["survey"]))

GetSurveyData(r) == Get(r, "survey-data", DataResponse(files["survey"], "survey data"))

(***************************************************************************)
(* The research routes.  The collection is a sequence of documents in      *)
(* insertion order; the schema of models/ResearchData keeps sessionId      *)
(* unique and stamps createdAt and updatedAt when a document is built.     *)
(***************************************************************************)
EmptyMap == [k \in {} |-> Undef]

\* new Map(Object.entries(v || {}))
EntriesOf(v) == IF Truthy(v) /\ v.t = "object" THEN v.o ELSE EmptyMap

\* { ...a, ...v } for the properties a and a value v
Spread(a, v) ==
    LET b == IF v.t = "object" THEN v.o ELSE EmptyMap
    IN  [k \in DOMAIN a \cup DOMAIN b |-> IF k \in DOMAIN b THEN b[k] ELSE a[k]]

\* ResearchData.findOne({ sessionId }): the position of the document, or 0
FindOne(collection, sessionId) ==
    IF \E i \in 1..Len(collection) : collection[i].sessionId = sessionId
    THEN CHOOSE i \in 1..Len(collection) : collection[i].sessionId = sessionId
    ELSE 0

\* new ResearchData({ ... }) at instant now
NewResearchData(b, now) ==
    [sessionId        |-> Prop(b, "sessionId"),
     calculatorData   |-> EntriesOf(Prop(b, "calculatorData")),
     surveyData       |-> EntriesOf(Prop(b, "surveyData")),
     metadata         |-> IF Truthy(Prop(b, "metadata")) THEN Spread(EmptyMap, Prop(b, "metadata"))
                          ELSE EmptyMap,
     completionStatus |-> IF Truthy(Prop(b, "completionStatus"))
                          THEN Spread(EmptyMap, Prop(b, "completionStatus"))
                          ELSE EmptyMap,
     createdAt        |-> now,
     updatedAt        |-> now]

\* the assignments to the document findOne returned
UpdatedResearchData(doc, b, now) ==
    [doc EXCEPT !.calculatorData   = EntriesOf(Prop(b, "calculatorData")),
                !.surveyData       = EntriesOf(Prop(b, "surveyData")),
                !.metadata         = Spread(doc.metadata, Prop(b, "metadata")),
                !.completionStatus = Spread(doc.completionStatus, Prop(b, "completionStatus")),
                !.updatedAt        = now]

\* POST /api/research-data up to the await of findOne
PostResearchData(r, b) ==
    /\ Receive(r, "research-data", b)
    /\ IF ~Truthy(Prop(b, "sessionId"))
       THEN Finish(r, Response(400, Obj([success |-> Bool(FALSE),
                                         error |-> Str("Session ID is required")])))
       ELSE /\ pc' = [pc EXCEPT ![r] = "awaitFind"]
            /\ UNCHANGED resp
    /\ UNCHANGED <<local, errors, files, research>>

\* findOne resolves and the handler runs on to the await of save
ResearchFound(r) ==
    /\ ThreadFree
    /\ pc[r] = "awaitFind"
    /\ LET at == FindOne(research, Prop(body[r], "sessionId"))
       IN  local' = [local EXCEPT ![r] =
               [NoLocal EXCEPT !.record =
                    IF at # 0
                    THEN [isNew |-> FALSE, doc |-> UpdatedResearchData(research[at], body[r], nreq)]
                    ELSE [isNew |-> TRUE, doc |-> NewResearchData(body[r], nreq)]]]
    /\ pc' = [pc EXCEPT ![r] = "awaitSave"]
    /\ UNCHANGED <<nreq, route, body, resp, errors, files, research>>

\* the collection after doc.save(): an insert for a new document, a $set of
\* the assigned paths on the stored document for one that was found
Saved(collection, record) ==
    IF record.isNew THEN Append(collection, record.doc)
    ELSE [i \in 1..Len(collection) |->
            IF collection[i].sessionId = record.doc.sessionId THEN record.doc
            ELSE collection[i]]

\* the unique index on sessionId rejects the insert
DuplicateKey(collection, record) ==
    record.isNew /\ FindOne(collection, record.doc.sessionId) # 0

\* save resolves or rejects, and the handler responds; it rejects when the
\* database fails (saved is "failed") and when the index does ("duplicate")
ResearchSaved(r) ==
    /\ ThreadFree
    /\ pc[r] = "awaitSave"
    /\ \E ok \in BOOLEAN :
        IF ok /\ ~DuplicateKey(research, local[r].record)
        THEN /\ research' = Saved(research, local[r].record)
             /\ Finish(r, Response(200,
                    Obj([success |-> Bool(TRUE),
                         message |-> Str(IF local[r].record.isNew
                                         THEN "Research data saved successfully"
                                         ELSE "Research data updated successfully"),
                         sessionId |-> Prop(body[r], "sessionId")])))
             /\ local' = [local EXCEPT ![r].saved = "written"]
             /\ UNCHANGED errors
        ELSE /\ Finish(r, Response(500, Obj([success |-> Bool(FALSE),
                                            error |-> Str("Internal server error")])))
             /\ errors' = [errors EXCEPT ![r] = @ \cup {"Error saving research data"}]
             /\ local' = [local EXCEPT ![r].saved = IF ok THEN "duplicate" ELSE "failed"]
             /\ UNCHANGED research
    /\ UNCHANGED <<nreq, route, body, files>>

\* sort({ createdAt: -1 }): insertion of each document before the first
\* one created earlier
RECURSIVE SortByCreatedDesc(_)
SortByCreatedDesc(docs) ==
    IF docs = <<>> THEN <<>>
    ELSE LET rest == SortByCreatedDesc(Tail(docs))
             d    == Head(docs)
             k    == Cardinality({i \in 1..Len(rest) : rest[i].createdAt > d.createdAt})
         IN  SubSeq(rest, 1, k) \o <<d>> \o SubSeq(rest, k + 1, Len(rest))

\* the keys of a map in iteration order
RECURSIVE KeySeq(_)
KeySeq(keys) ==
    IF keys = {} THEN <<>>
    ELSE LET k == CHOOSE x \in keys : TRUE IN <<k>> \o KeySeq(keys \ {k})

\* v || ''
OrEmpty(v) == IF Truthy(v) THEN v ELSE Str("")

\* the rows if the loop over surveyData were left out
RecordRowsCalculatorOnly(record) ==
    LET calc == KeySeq(DOMAIN record.calculatorData)
    IN  [i \in 1..Len(calc) |->
            [sessionId |-> record.sessionId, created |-> record.createdAt,
             dataType |-> "Calculator", field |-> calc[i],
             value |-> Prop(record.calculatorData[calc[i]], "input"),
             questionText |-> Str(""),
             result |-> OrEmpty(Prop(record.calculatorData[calc[i]], "result")),
             timestamp |-> Prop(record.calculatorData[calc[i]], "timestamp")]]

\* the rows generateUnifiedCSV pushes for one record
RecordRows(record) ==
    LET calc == KeySeq(DOMAIN record.calculatorData)
        surv == KeySeq(DOMAIN record.surveyData)
    IN  [i \in 1..Len(calc) |->
            [sessionId |-> record.sessionId, created |-> record.createdAt,
             dataType |-> "Calculator", field |-> calc[i],
             value |-> Prop(record.calculatorData[calc[i]], "input"),
             questionText |-> Str(""),
             result |-> OrEmpty(Prop(record.calculatorData[calc[i]], "result")),
             timestamp |-> Prop(record.calculatorData[calc[i]], "timestamp")]]
        \o
        [i \in 1..Len(surv) |->
            [sessionId |-> record.sessionId, created |-> record.createdAt,
             dataType |-> "Survey", field |-> surv[i],
             value |-> Prop(record.surveyData[surv[i]], "response"),
             questionText |-> OrEmpty(Prop(record.surveyData[surv[i]], "questionText")),
             result |-> Str(""),
             timestamp |-> Prop(record.surveyData[surv[i]], "timestamp")]]

RECURSIVE UnifiedRows(_)
UnifiedRows(records) ==
    IF records = <<>> THEN <<>>
    ELSE RecordRows(Head(records)) \o UnifiedRows(Tail(records))

generateUnifiedCSV(records) ==
    Csv("SessionID,RecordCreated,DataType,Field,Value,QuestionText,Result,Timestamp",
        UnifiedRows(records))

\* GET /api/research-data/export/csv
ExportResearchCsvResponse(collection) ==
    LET allRecords == SortByCreatedDesc(collection)
    IN  IF Len(allRecords) = 0
        THEN Response(404, Obj([success |-> Bool(FALSE),
                                error |-> Str("No research data found for export")]))
        ELSE [status |-> 200, body |-> generateUnifiedCSV(allRecords)]

GetResearchExportCsv(r) ==
    Get(r, "research-data/export/csv", ExportResearchCsvResponse(research))

(***************************************************************************)
(* The request bodies the clients send.                                    *)
(***************************************************************************)
Child(age) == Obj([age |-> Str(age)])

\* a body of POST /api/calculate-bacc; a field that is Undef is absent
CalcBody(rank, location, costShare, children) ==
    LET all == [rank |-> rank, location |-> location,
                costShare |-> costShare, children |-> children]
    IN  Obj([k \in {j \in DOMAIN all : all[j] # Undef} |-> all[k]])

Infant == Child("Infant (0-12 months)")

Toddler == Child("Toddler (13-24 months)")

SchoolAge == Child("School-age (6-13 years)")

\* the example of the documentation
ExampleBody == CalcBody(Str("E-5"), Str("Standard Cost"), NumOf(25), Arr(<<Infant>>))

CalcBodies ==
    { ExampleBody,
      CalcBody(Str("E-3"), Str("High Cost"), NumOf(1),
               Arr(<<Toddler, Child("Teen"), SchoolAge>>)),
      CalcBody(Str("X-1"), Str("Standard Cost"), NumOf(25), Arr(<<Infant>>)),
      CalcBody(Str("E-5"), Str("Low Cost"), Str("50"), Arr(<<Child("constructor")>>)),
      CalcBody(Str("E-5"), Str("Standard Cost"), NumOf(25), Str("abc")),
      CalcBody(Undef, Str("Standard Cost"), NumOf(25), Arr(<<Infant>>)),
      CalcBody(Str("E-5"), Str("Standard Cost"), NumOf(25), Undef),
      CalcBody(Str("O-10"), Str("Standard Cost"), NumOf(0), Arr(<<>>)) }

\* the bodies of POST /api/submit-survey
SurveyBodies ==
    { Obj([timestamp |-> Instant(0),
           responses |-> Obj([currentPrograms |-> Str("CDC"),
                              currentHurdles  |-> Arr(<<Str("cost"), Str("waitlist")>>)])]),
      Obj([timestamp |-> Instant(0)]) }

CalcEntry(input, result) ==
    Obj([input |-> input, result |-> result, timestamp |-> Instant(0)])

SurveyEntry(response, questionText) ==
    Obj([response |-> response, questionText |-> Str(questionText),
         timestamp |-> Instant(0)])

\* the bodies of POST /api/research-data
FirstVisit ==
    Obj([sessionId      |-> Str("s1"),
         calculatorData |-> Obj([rank     |-> CalcEntry(Str("E-5"), Null),
                                 children |-> CalcEntry(NumOf(1), NumOf(1050))]),
         metadata       |-> Obj([browser |-> Str("firefox")])])

SurveyVisit ==
    Obj([sessionId        |-> Str("s1"),
         surveyData       |-> Obj([qualityCare |-> SurveyEntry(Str("agree"), "Quality of care")]),
         metadata         |-> Obj([device |-> Str("phone")]),
         completionStatus |-> Obj([surveyCompleted |-> Bool(TRUE)])])

OtherVisit ==
    Obj([sessionId      |-> Str("s2"),
         calculatorData |-> Obj([rank |-> CalcEntry(Str("O-1"), Null)]),
         surveyData     |-> Obj([qualityCare |-> SurveyEntry(Str("neutral"), "Quality of care")])])

ResearchBodies ==
    { FirstVisit, SurveyVisit, OtherVisit, Obj([metadata |-> Obj([browser |-> Str("firefox")])]) }

(***************************************************************************)
(* The specifications.  SpecCalc is the calculator endpoint under every    *)
(* kind of body; SpecResearch is the research routes, whose handlers       *)
(* interleave at their awaits; SpecFiles is the two flat-file stores with  *)
(* their read endpoints; Spec is the whole server, every route of it,      *)
(* under its first MaxServerReq requests.                                  *)
(***************************************************************************)
NextCalc ==
    \E r \in Reqs :
        \/ \E b \in CalcBodies : PostCalculateBacc(r, b)
        \/ SaveRead(r)
        \/ SaveWrite(r)
        \/ CalculateRespond(r)

InitCalc == Init /\ files["survey"] = FileAbsent

SpecCalc == InitCalc /\ [][NextCalc]_vars

NextResearch ==
    \E r \in Reqs :
        \/ \E b \in ResearchBodies : PostResearchData(r, b)
        \/ ResearchFound(r)
        \/ ResearchSaved(r)
        \/ GetResearchExportCsv(r)

InitResearch == Init /\ files = [s \in {"calc", "survey"} |-> FileAbsent]

SpecResearch == InitResearch /\ [][NextResearch]_vars

NextFiles ==
    \E r \in Reqs :
        \/ PostCalculateBacc(r, ExampleBody)
        \/ SaveRead(r)
        \/ SaveWrite(r)
        \/ CalculateRespond(r)
        \/ \E b \in SurveyBodies, rnd \in RandomSuffixes : PostSubmitSurvey(r, b, rnd)
        \/ SurveyRespond(r)
        \/ GetData(r)
        \/ GetSurveyData(r)

SpecFiles == Init /\ [][NextFiles]_vars

MaxServerReq == 2

Next ==
    \E r \in 1..MaxServerReq :
        \/ PostCalculateBacc(r, ExampleBody)
        \/ SaveRead(r)
        \/ SaveWrite(r)
        \/ CalculateRespond(r)
        \/ \E b \in SurveyBodies, rnd \in RandomSuffixes : PostSubmitSurvey(r, b, rnd)
        \/ SurveyRespond(r)
        \/ GetExportCsv(r)
        \/ GetData(r)
        \/ GetExportSurveyCsv(r)
        \/ GetSurveyData(r)
        \/ \E b \in {FirstVisit, OtherVisit} : PostResearchData(r, b)
        \/ ResearchFound(r)
        \/ ResearchSaved(r)
        \/ GetResearchExportCsv(r)

Spec == Init /\ [][Next]_vars

(***************************************************************************)
(* Properties of the calculator endpoint, checked under SpecCalc.          *)
(***************************************************************************)
IsCalculate(r) == route[r] = "calculate-bacc"

Answered(r) == pc[r] = "done"

KnownRank(v) == v.t = "string" /\ v.s \in DOMAIN RankDollars

KnownLocation(v) == v.t = "string" /\ v.s \in DOMAIN GeoTenths

KnownAge(v) == v.t = "string" /\ v.s \in DOMAIN AgeTenths

\* the integer a number with no fraction denotes
IntegerPart(d) ==
    Bind(LAMBDA x : IF x.m = <<>> THEN 0
                    ELSE IF x.e >= 0 THEN BigToInt(BigShl(x.m, x.e))
                    ELSE BigToInt(BigShr(x.m, -x.e)),
         d)

\* a number that is a whole percentage from 0 to 100
IsPercent(v) ==
    /\ v.t = "number"
    /\ ~v.v.nan
    /\ MathRound(v.v) = v.v
    /\ v.v.e <= 0
    /\ IntegerPart(v.v) <= 100

\* base(rank) * geo(location) * age(ageGroup) * (1 - costShare/100) in cents,
\* computed in the integers and rounded to the nearest cent
ExactCents(rank, location, age, costShare) ==
    (RankDollars[rank] * GeoTenths[location] * AgeTenths[age] * (100 - costShare) + 50) \div 100

\* the number a decimal amount of so many cents denotes
Dollars(cents) == Num(NumDivInt(FromInt(cents), 100))

PerChildOf(r) == Prop(resp[r].body, "perChild").a

\* C1: for a known rank, location and age group and a numeric cost share,
\* each child's amount is round(base * geo * age * (1 - costShare/100), 2);
\* E-5, Standard Cost, one Infant and 25 give 1050.00.
C1_AmountIsRoundedProduct ==
    \A r \in Reqs :
        ( /\ IsCalculate(r)
          /\ resp[r].status = 200
          /\ KnownRank(Prop(body[r], "rank"))
          /\ KnownLocation(Prop(body[r], "location"))
          /\ IsPercent(Prop(body[r], "costShare")) )
        => \A i \in 1..Len(PerChildOf(r)) :
               LET age == Prop(PerChildOf(r)[i], "age")
               IN  KnownAge(age) =>
                     Prop(PerChildOf(r)[i], "amount") =
                        Dollars(ExactCents(Prop(body[r], "rank").s,
                                           Prop(body[r], "location").s, age.s,
                                           IntegerPart(Prop(body[r], "costShare").v)))

\* the amount in cents of a returned amount
CentsOf(amount) == IntegerPart(MathRound(NumMul(amount.v, FromInt(100))))

RECURSIVE SumCents(_, _)
SumCents(perChild, i) ==
    IF i > Len(perChild) THEN 0
    ELSE CentsOf(Prop(perChild[i], "amount")) + SumCents(perChild, i + 1)

\* C2: a 200 response carries numbers: every amount, totalMonthly (the sum
\* of the amounts rounded to 2 decimals) and totalAnnual (totalMonthly * 12
\* rounded to 2 decimals).
C2_TotalsAreSums ==
    \A r \in Reqs :
        (IsCalculate(r) /\ resp[r].status = 200) =>
            LET totalMonthly == Prop(resp[r].body, "totalMonthly")
                totalAnnual  == Prop(resp[r].body, "totalAnnual")
            IN  /\ totalMonthly.t = "number"
                /\ totalAnnual.t = "number"
                /\ \A i \in 1..Len(PerChildOf(r)) :
                       Prop(PerChildOf(r)[i], "amount").t = "number"
                /\ totalMonthly = Dollars(SumCents(PerChildOf(r), 1))
                /\ totalAnnual = Num(Round2(NumMul(totalMonthly.v, FromInt(12))))

AgeOf(child) == Prop(child, "age")

AgesOf(children) == [i \in 1..Len(children) |-> AgeOf(children[i])]

\* C3: a child whose age is not a known bracket is skipped: the response
\* has one entry for each child of a known bracket, in order, and no other.
C3_UnknownAgeSkipped ==
    \A r \in Reqs :
        ( /\ IsCalculate(r)
          /\ Answered(r)
          /\ ~ValidationFails(body[r])
          /\ \A i \in 1..Len(Prop(body[r], "children").a) :
                 Prop(body[r], "children").a[i].t = "object" )
        => /\ resp[r].status = 200
           /\ AgesOf(PerChildOf(r)) = SelectSeq(AgesOf(Prop(body[r], "children").a), KnownAge)

\* C4: a body whose rank, location or children is missing (or empty, or
\* zero), or whose children is not an array, is answered 400 and leaves the
\* store as it was.
C4_InvalidBodyIs400 ==
    [][\A r \in Reqs :
          (pc[r] = "new" /\ pc'[r] # "new" /\ IsCalculate(r)' /\ ValidationFails(body'[r]))
          => (pc'[r] = "done" /\ resp'[r].status = 400 /\ files' = files)]_vars

IsPrefix(s, t) == Len(s) <= Len(t) /\ SubSeq(t, 1, Len(s)) = s

\* C5: each store is append-only: a write that succeeds leaves the previous
\* collection (empty for a missing or a corrupt file) with exactly the
\* appended record added at the end, and nothing else changes a store.
C5_AppendOnly ==
    [][\A s \in {"calc", "survey"} :
          LET before == ReadExisting(files[s])
              after  == ReadExisting(files'[s])
              writes == {r \in Reqs : /\ pc[r] = "saveWrite"
                                      /\ StoreOf(route[r]) = s
                                      /\ local'[r].saved = "written"}
          IN  /\ IsPrefix(before, after)
              /\ writes = {} => after = before
              /\ \A r \in writes : after = Append(before, local[r].record)]_vars

(***************************************************************************)
(* Properties of the research store, checked under SpecResearch.           *)
(***************************************************************************)
IsResearch(r) == route[r] = "research-data"

SessionOf(r) == Prop(body[r], "sessionId")

\* C6: the first write for a sessionId creates its record with the entries
\* given (empty when absent); every later write replaces calculatorData and
\* surveyData, shallow-merges metadata and completionStatus into the stored
\* ones (keys it does not name are retained), refreshes updatedAt and
\* leaves every other record alone.
C6_UpsertBySession ==
    [][\A r \in Reqs :
          (pc[r] = "awaitSave" /\ pc'[r] = "done" /\ resp'[r].status = 200) =>
            LET b  == body[r]
                at == FindOne(research, SessionOf(r))
            IN  IF at = 0
                THEN /\ Len(research') = Len(research) + 1
                     /\ SubSeq(research', 1, Len(research)) = research
                     /\ LET new == research'[Len(research')]
                        IN  /\ new.sessionId = SessionOf(r)
                            /\ new.calculatorData = EntriesOf(Prop(b, "calculatorData"))
                            /\ new.surveyData = EntriesOf(Prop(b, "surveyData"))
                            /\ new.metadata = EntriesOf(Prop(b, "metadata"))
                            /\ new.completionStatus = EntriesOf(Prop(b, "completionStatus"))
                ELSE /\ Len(research') = Len(research)
                     /\ \A i \in 1..Len(research) : i # at => research'[i] = research[i]
                     /\ LET old == research[at]
                            new == research'[at]
                        IN  /\ new.sessionId = old.sessionId
                            /\ new.createdAt = old.createdAt
                            /\ new.calculatorData = EntriesOf(Prop(b, "calculatorData"))
                            /\ new.surveyData = EntriesOf(Prop(b, "surveyData"))
                            /\ new.metadata = Spread(old.metadata, Prop(b, "metadata"))
                            /\ new.completionStatus =
                                   Spread(old.completionStatus, Prop(b, "completionStatus"))
                            /\ new.updatedAt >= old.updatedAt]_vars

\* C7: concurrent writes for one sessionId behave as if they ran one after
\* the other: every write the database itself does not fail succeeds, and
\* no update is lost, so the stored record keeps every metadata and
\* completionStatus key an acknowledged write gave.
C7_WritesAtomicPerSession ==
    \A r \in Reqs :
        (IsResearch(r) /\ Answered(r) /\ Truthy(SessionOf(r))) =>
            /\ local[r].saved # "failed" => resp[r].status = 200
            /\ resp[r].status = 200 =>
                 LET at == FindOne(research, SessionOf(r))
                 IN  /\ at # 0
                     /\ DOMAIN EntriesOf(Prop(body[r], "metadata"))
                            \subseteq DOMAIN research[at].metadata
                     /\ DOMAIN EntriesOf(Prop(body[r], "completionStatus"))
                            \subseteq DOMAIN research[at].completionStatus

(***************************************************************************)
(* Properties of the write failures and of the exports, checked under      *)
(* Spec, and of the flat-file stores, checked under SpecFiles.             *)
(***************************************************************************)
IsSurvey(r) == route[r] = "submit-survey"

RowsFor(rows, sessionId, dataType) ==
    Cardinality({j \in 1..Len(rows) :
                    rows[j].sessionId = sessionId /\ rows[j].dataType = dataType})

IsFlatFilePost(r) == IsCalculate(r) \/ IsSurvey(r)

\* the records the requests 1..n wrote to store s, in the order of arrival
RECURSIVE WrittenUpTo(_, _)
WrittenUpTo(s, n) ==
    IF n = 0 THEN <<>>
    ELSE IF IsFlatFilePost(n) /\ StoreOf(route[n]) = s /\ local[n].saved = "written"
    THEN Append(WrittenUpTo(s, n - 1), JsonValue(local[n].record))
    ELSE WrittenUpTo(s, n - 1)

\* C10: no two requests are inside a save at once, the data a request read
\* is still the file's content when it writes, and a store holds every
\* record written to it, in the order of the requests.
C10_NoLostUpdate ==
    /\ \A r1, r2 \in Reqs :
           ( /\ IsFlatFilePost(r1) /\ pc[r1] \in {"saveRead", "saveWrite", "respond"}
             /\ IsFlatFilePost(r2) /\ pc[r2] \in {"saveRead", "saveWrite", "respond"} )
           => r1 = r2
    /\ \A r \in Reqs :
           pc[r] = "saveWrite" => local[r].existingData = ReadExisting(files[StoreOf(route[r])])
    /\ \A s \in {"calc", "survey"} : ReadExisting(files[s]) = WrittenUpTo(s, nreq)

\* two requests wrote to the same store and both records are in it
C10_Witness ==
    \E r1, r2 \in Reqs :
        /\ r1 < r2
        /\ IsFlatFilePost(r1) /\ IsFlatFilePost(r2)
        /\ route[r1] = route[r2]
        /\ local[r1].saved = "written" /\ local[r2].saved = "written"
        /\ Len(ReadExisting(files[StoreOf(route[r1])])) = 2

=============================================================================
